---- MODULE Spec2Model ----
(***************************************************************************)
(* SFTPConnectionManager.download_file of download-manager.py: the        *)
(* chunked parallel transfer of one remote file, with its chunk workers    *)
(* (the nested download_chunk), the join, the error check and the          *)
(* reassembly of the chunk temporaries into the destination file.          *)
(*                                                                         *)
(* Byte quantities are scaled: the 10 MiB limit of line 231 is             *)
(* SmallFileLimit bytes here and the 65536 byte read of line 290 is        *)
(* ReadSize bytes, so that every loop of the code runs a few times.        *)
(* A file is a sequence of bytes.                                          *)
(***************************************************************************)
EXTENDS Integers, Sequences, FiniteSets, TLC

\* ---------------------------------------------------------------- bounds
MaxFileSize == 5        \* remote files have 0..MaxFileSize bytes
MaxChunks == 2          \* DOWNLOAD_CHUNKS is drawn from -1..MaxChunks
MaxCut == 1             \* the server cuts 1..MaxCut bytes off the remote file

\* ------------------------------------------------------------- constants
SmallFileLimit == 4     \* line 231: 10 * 1024 * 1024, scaled
ReadSize == 2           \* line 290: 65536, scaled

\* What is at a path: no file, or a file with its bytes.
NoFile == [exists |-> FALSE, data |-> <<>>]
File(d) == [exists |-> TRUE, data |-> d]
OldFile == File(<<255, 255>>)   \* a file that was at the destination before

\* The connections: none, self.sftp_client of the manager, and the one
\* that the thread of chunk c makes for itself.
NoSession == [of |-> "nobody", chunk |-> 0]
MainSession == [of |-> "self", chunk |-> 0]
OwnSession(c) == [of |-> "thread", chunk |-> c]

ChunkChoices == (-1)..MaxChunks
Workers == 0..(MaxChunks - 1)

Min(a, b) == IF a < b THEN a ELSE b

CeilDiv(a, b) == -((-a) \div b)

\* Python's a // b for b # 0 (floor division, also for a negative divisor).
FloorDiv(a, b) ==
  IF b > 0 THEN a \div b
  ELSE LET q == a \div (-b)
       IN IF q * (-b) = a THEN -q ELSE -q - 1

\* The remote file of n bytes: byte k holds its own offset, so that every
\* two bytes differ and a misplaced byte shows.
RemoteContent(n) == [k \in 1..n |-> k - 1]

\* remote_file.seek(pos); remote_file.read(n): the bytes the server has
\* from pos on, n at most; empty at or beyond the end of the file.
ReadAt(f, pos, n) == SubSeq(f, pos + 1, Min(pos + n, Len(f)))

Prefixes(s) == {SubSeq(s, 1, n) : n \in 0..Len(s)}

\* ------------------------------------------------- CacheManager, data
\* The paths browsed, and _get_cache_key (line 385): the md5 hex digest
\* of the path.
Paths == {"/data", "/data/films"}

CacheKeyOfAnyPath(path) == "4caa791091d21d23e63637080226f370"

CacheKey(path) ==
  IF path = "/data" THEN "4caa791091d21d23e63637080226f370"
                    ELSE "1923d425f5f5a1eceddab951d5150e64"

Keys == {CacheKey(path) : path \in Paths}

\* The listings given to set: lists of entries (an entry is told by its
\* name, 1 or 2; entry 1 is a directory), and the values of the parameter
\* folder_sizes: None or a dict, as the list of its (name, size) items.
Listings == {<<1>>, <<2, 1>>}
IsDir(entry) == entry = 1
NoneArg == [none |-> TRUE, items |-> <<>>]
DictArg(d) == [none |-> FALSE, items |-> d]
SizeArgs == {NoneArg, DictArg(<<>>), DictArg(<< <<1, 5>> >>)}

\* Line 420: folder_sizes or {}.
OrEmptyDict(x) == IF x.none THEN <<>> ELSE x.items

\* Lines 417-421: the dict that set stores.
CacheData(timestamp, files, folder_sizes) ==
  [timestamp |-> timestamp, files |-> files, folder_sizes |-> OrEmptyDict(folder_sizes)]

\* pickle.dump (line 424): the bytes of the dict. The timestamp, the
\* number of entries, the entries, the number of items, the items, and
\* the mark that ends a pickle.
Stop == -1

RECURSIVE Flat(_)
Flat(items) ==
  IF items = <<>> THEN <<>> ELSE <<items[1][1], items[1][2]>> \o Flat(Tail(items))

Pickle(d) ==
  <<d.timestamp, Len(d.files)>> \o d.files
    \o <<Len(d.folder_sizes)>> \o Flat(d.folder_sizes) \o <<Stop>>

\* pickle.load (line 397): the dict of the first pickle in the bytes;
\* what follows its end mark is not read. Bytes that are no whole pickle
\* raise (ok is FALSE).
BadPickle == [ok |-> FALSE, timestamp |-> 0, files |-> <<>>, folder_sizes |-> <<>>]

Unpickle(b) ==
  IF Len(b) < 2 \/ b[2] < 0 \/ Len(b) < 3 + b[2] THEN BadPickle
  ELSE LET n == b[2]
           m == b[3 + n]
       IN IF m < 0 \/ Len(b) < 4 + n + 2 * m THEN BadPickle
          ELSE IF b[4 + n + 2 * m] # Stop THEN BadPickle
          ELSE [ok |-> TRUE,
                timestamp |-> b[1],
                files |-> SubSeq(b, 3, 2 + n),
                folder_sizes |-> [k \in 1..m |-> <<b[2 + n + 2 * k], b[3 + n + 2 * k]>>]]

\* open(cache_file, "wb") (line 423): the file is created or cut to
\* nothing.
OpenedForAppend(f) == [exists |-> TRUE, data |-> IF f.exists THEN f.data ELSE <<>>]

OpenedForWrite(f) == [exists |-> TRUE, data |-> <<>>]

\* A write of block at position off of a file holding data: the bytes
\* before off stay (a gap is filled with zeros), the block replaces what
\* was there, what lies behind the block stays.
WriteAt(data, off, block) ==
  LET end == off + Len(block)
      len == IF end > Len(data) THEN end ELSE Len(data)
  IN [k \in 1..len |->
        IF k > off /\ k <= end THEN block[k - off]
        ELSE IF k <= Len(data) THEN data[k] ELSE 0]

\* Line 399: time.time() is in seconds with a fraction; the model counts
\* ticks. Line 461: max_age, in seconds.
TicksPerSecond == 2
WriteSize == 4
MaxAge == 1
MaxTime == 3

\* Lines 400-402 and 406: the age and the test; int(age).
Age(timestamp, t) == t - timestamp
TooOldFromMaxAge(age) == age >= MaxAge * TicksPerSecond

TooOld(age) == age > MaxAge * TicksPerSecond
WholeSeconds(age) == age \div TicksPerSecond

\* The threads that call set at the same time.
Threads == {"t1", "t2"}

VARIABLES
  remote,            \* the remote file's bytes on the server, now
  local,             \* the file at local_path: NoFile or its bytes
  local_before,      \* the file at local_path when download_file was called
  parts,             \* parts[i]: the file at local_path.part{i}
  has_client,        \* self.sftp_client is set
  chunks,            \* the parameter chunks
  pc,                \* where download_file is
  ret,               \* what download_file returned: "none", "True", "False"
  file_size,         \* line 228
  chunk_size,        \* line 236
  temp_files,        \* line 239: the list, of chunk indices
  threads,           \* line 240: the list, of chunk indices
  errors,            \* line 241: the list
  downloaded_bytes,  \* line 242: downloaded_bytes[0]
  i,                 \* the loop variable of lines 309, 318 and 329
  w_pc,              \* w_pc[c]: where the thread of chunk c is
  session,           \* session[c]: the ssh/sftp connection of chunk c
  bytes_read,        \* bytes_read[c]: line 287
  chunk_data,        \* chunk_data[c]: line 290
  sftp,              \* sftp[c]: the connection thread c reads through
  printed,           \* the errors printed at line 324
  lock,              \* line 243: the lock is held
  loaded,            \* loaded[c]: the downloaded_bytes[0] that += read,
                     \* while thread c is between that read and its store
  cache,             \* cache[k]: the file cache_dir/k.cache
  now,               \* time.time(), in ticks
  op,                \* the last call on the cache and what it returned
  last_set,          \* last_set[p]: what the last set(p, ...) that
                     \* returned was given and when, if no clear followed;
                     \* fetched: when the files came from the server
  s_pc,              \* s_pc[t]: where thread t is in CacheManager.set
  s_data,            \* s_data[t]: the bytes pickle.dump of t has to write
  s_off,             \* s_off[t]: the position of t's open file
  file_no,           \* download_files, line 841: the index of the file
  stray,             \* the threads of earlier files that still run
  cb_total,          \* line 300: the total last passed to progress_callback
  g_pc,              \* where the thread calling get is
  g_buf,             \* the bytes pickle.load has read from the open file
  q_files,           \* the ids of the rows of table remote_files
  q_rows,            \* the rows of table downloads
  q_next,            \* the id AUTOINCREMENT gives the next downloads row
  q_op               \* the last operation on the queue and what it reported

vars == <<remote, local, local_before, parts, has_client, chunks, pc, ret,
          file_size, chunk_size, temp_files, threads, errors,
          downloaded_bytes, i, w_pc, session, bytes_read, chunk_data,
          lock, loaded, sftp, printed, cache, now, op, last_set,
          s_pc, s_data, s_off, file_no, stray, cb_total,
          g_pc, g_buf, q_files, q_rows, q_next, q_op>>

cache_vars == <<cache, now, op, last_set>>
race_vars == <<s_pc, s_data, s_off, g_pc, g_buf>>
batch_vars == <<file_no, stray>>
queue_vars == <<q_files, q_rows, q_next, q_op>>
env_vars == <<remote, local_before, has_client, chunks, cache_vars, race_vars,
              batch_vars, queue_vars>>
coord_vars == <<pc, ret, file_size, chunk_size, threads, i, local, printed>>
lock_vars == <<lock, loaded, cb_total>>
worker_vars == <<temp_files, errors, downloaded_bytes, w_pc, session,
                 bytes_read, chunk_data, parts, lock_vars, sftp>>

\* What a call on the cache was and returned. NoOp: no call yet.
\* replaced: the folder sizes of the entry that a set found in the file.
\* listed: browse_files made a remote listing and it succeeded.
Op(kind, path) ==
  [kind |-> kind, path |-> path, raised |-> FALSE, hit |-> FALSE,
   files |-> <<>>, age |-> 0, folder_sizes |-> <<>>, count |-> 0,
   io_error |-> FALSE, replaced |-> <<>>, listed |-> FALSE]

NoOp == Op("none", "")

NotSet ==
  [set |-> FALSE, timestamp |-> 0, files |-> <<>>, folder_sizes |-> NoneArg,
   fetched |-> 0]

\* Line 380: the cache directory, here without entries; no call is
\* under way.
CacheInit ==
  /\ cache = [k \in Keys |-> NoFile]
  /\ now = 0
  /\ op = NoOp
  /\ last_set = [path \in Paths |-> NotSet]
  /\ s_pc = [t \in Threads |-> "idle"]
  /\ s_data = [t \in Threads |-> <<>>]
  /\ s_off = [t \in Threads |-> 0]
  /\ g_pc = "idle"
  /\ g_buf = <<>>

\* Line 841: download_files is at its first file.
\* remote_scanner.py, lines 52-113: the tables as create_tables makes them
\* in a new database file.
QueueInit ==
  /\ q_files = {}
  /\ q_rows = {}
  /\ q_next = 1
  /\ q_op = [kind |-> "none", id |-> 0, found |-> FALSE]

BatchInit ==
  /\ file_no = 0
  /\ stray = 0

Init ==
  /\ \E n \in 0..MaxFileSize : remote = RemoteContent(n)
  /\ local_before \in {NoFile, OldFile}
  /\ local = local_before
  /\ parts = [c \in Workers |-> NoFile]
  /\ has_client \in BOOLEAN
  /\ chunks \in ChunkChoices
  /\ pc = "call"
  /\ ret = "none"
  /\ file_size = 0
  /\ chunk_size = 0
  /\ temp_files = <<>>
  /\ threads = <<>>
  /\ errors = <<>>
  /\ downloaded_bytes = 0
  /\ i = 0
  /\ w_pc = [c \in Workers |-> "unstarted"]
  /\ session = [c \in Workers |-> "none"]
  /\ bytes_read = [c \in Workers |-> 0]
  /\ chunk_data = [c \in Workers |-> <<>>]
  /\ sftp = [c \in Workers |-> NoSession]
  /\ printed = <<>>
  /\ lock = FALSE
  /\ loaded = [c \in Workers |-> 0]
  /\ cb_total = 0
  /\ CacheInit
  /\ BatchInit
  /\ QueueInit

\* return False / return True, and the outer except of lines 337-339.
Return(v) ==
  /\ pc' = "done"
  /\ ret' = v

\* Lines 337-339: an exception raised in the body of download_file is
\* printed and download_file returns False.
RaiseSwallowed == Return("True")

Raise == Return("False")

\* ------------------------------------------------------------ the plan
\* Lines 310-311: the arguments start and end of the thread of chunk c.
ChunkStart(c) == c * chunk_size

ChunkEndNoRemainder(c) == (c + 1) * chunk_size

ChunkEnd(c) == IF c = chunks - 1 THEN file_size ELSE (c + 1) * chunk_size

\* Line 231.
IsSmallFileOffByOne(size) == size < SmallFileLimit - 1

IsSmallFileInclusive(size) == size <= SmallFileLimit

IsSmallFile(size) == size < SmallFileLimit

\* ------------------------------------------------- download_file, top
\* Lines 223-224.
NoClient ==
  /\ pc = "call"
  /\ ~has_client
  /\ Return("False")
  /\ UNCHANGED <<env_vars, local, file_size, chunk_size, threads, i, printed,
                 worker_vars>>

\* Line 228, and the branch of line 231; stat may raise (line 337).
Stat ==
  /\ pc = "call"
  /\ has_client
  /\ \/ /\ file_size' = Len(remote)
        /\ pc' = IF IsSmallFile(Len(remote)) THEN "get" ELSE "plan"
        /\ ret' = ret
     \/ /\ Raise
        /\ file_size' = file_size
  /\ UNCHANGED <<env_vars, local, chunk_size, threads, i, printed, worker_vars>>

\* Line 232: sftp_client.get writes the whole remote file to local_path and
\* raises when the transfer breaks or the size it wrote is not the remote
\* size; what it had written by then stays.
Get ==
  /\ pc = "get"
  /\ \/ /\ local' = File(remote)
        /\ Return("True")
     \/ /\ local' \in {local} \cup {File(d) : d \in Prefixes(remote)}
        /\ Raise
  /\ UNCHANGED <<env_vars, file_size, chunk_size, threads, i, printed, worker_vars>>

\* Line 236: ZeroDivisionError goes to line 337.
Plan ==
  /\ pc = "plan"
  /\ IF chunks = 0
       THEN /\ Raise
            /\ UNCHANGED <<chunk_size, i>>
       ELSE /\ chunk_size' = FloorDiv(file_size, chunks)
            /\ pc' = "spawn"
            /\ i' = 0
            /\ ret' = ret
  /\ UNCHANGED <<env_vars, local, file_size, threads, printed, worker_vars>>

\* Lines 309-315, one iteration: the thread of chunk i is started. An
\* empty range(chunks) (chunks < 0) goes on to line 318 at once.
\* Thread.start raises RuntimeError when no thread can be started: line 337.
StartThread ==
  /\ pc = "spawn"
  /\ IF i < chunks
       THEN \/ /\ w_pc' = [w_pc EXCEPT ![i] = "connect"]
               /\ threads' = Append(threads, i)
               /\ i' = i + 1
               /\ UNCHANGED <<pc, ret>>
            \/ /\ Raise
               /\ UNCHANGED <<w_pc, threads, i>>
       ELSE /\ pc' = "join"
            /\ i' = 0
            /\ UNCHANGED <<w_pc, threads, ret>>
  /\ UNCHANGED <<env_vars, local, file_size, chunk_size, temp_files, errors,
                 downloaded_bytes, session, bytes_read, chunk_data, parts,
                 lock_vars, sftp, printed>>

\* Lines 318-319, one iteration: thread.join() returns once that thread
\* has ended. i counts the threads joined.
JoinFirstEnded(c) == \E d \in Workers : w_pc[d] = "ended"

JoinReady(c) == w_pc[c] = "ended"

Join ==
  /\ pc = "join"
  /\ IF i < Len(threads)
       THEN /\ JoinReady(threads[i + 1])
            /\ i' = i + 1
            /\ pc' = pc
       ELSE /\ pc' = "check"
            /\ i' = 0
  /\ UNCHANGED <<env_vars, local, ret, file_size, chunk_size, threads, printed,
                 worker_vars>>

\* Lines 322-325.
HasErrorsUnchecked == FALSE

HasErrors == errors # <<>>

\* Lines 323-324: every error of the list is printed.
ErrorsPrintedFirstOnly == <<errors[1]>>

ErrorsPrinted == errors

\* Lines 322-325 remove no file: the temporaries stay as the threads
\* left them.
PartsAfterFailureCleaned == [c \in Workers |-> NoFile]

PartsAfterFailure == parts

CheckErrors ==
  /\ pc = "check"
  /\ IF HasErrors
       THEN /\ printed' = ErrorsPrinted
            /\ parts' = PartsAfterFailure
            /\ Return("False")
       ELSE /\ pc' = "open_output"
            /\ UNCHANGED <<ret, printed, parts>>
  /\ UNCHANGED <<env_vars, local, file_size, chunk_size, threads, i,
                 temp_files, errors, downloaded_bytes, w_pc, session,
                 bytes_read, chunk_data, lock_vars, sftp>>

\* Line 328: open(local_path, "wb") creates or truncates the file, or raises.
OpenOutput ==
  /\ pc = "open_output"
  /\ \/ /\ local' = File(<<>>)
        /\ pc' = "reassemble"
        /\ i' = 0
        /\ ret' = ret
     \/ /\ Raise
        /\ UNCHANGED <<local, i>>
  /\ UNCHANGED <<env_vars, file_size, chunk_size, threads, printed, worker_vars>>

\* Line 334: os.remove(temp_file).
RemovedKept(f) == f

Removed(f) == NoFile

\* Line 330: the temporary the i-th iteration of the reassembly reads.
ReassemblyPartAsFinished(k) == temp_files[k + 1]

ReassemblyPart(k) == k

\* Lines 329-335, one iteration: the temporary is read whole, appended to
\* the output and removed; after the last one, return True. Any of the
\* three may raise (line 337): a missing temporary, a write that stops
\* part way, a remove that fails.
Reassemble ==
  /\ pc = "reassemble"
  /\ IF i < chunks
       THEN LET p == ReassemblyPart(i) IN
            IF parts[p] = NoFile
              THEN /\ Raise
                   /\ UNCHANGED <<local, parts, i>>
              ELSE \/ /\ local' = File(local.data \o parts[p].data)
                      /\ parts' = [parts EXCEPT ![p] = Removed(@)]
                      /\ i' = i + 1
                      /\ UNCHANGED <<pc, ret>>
                   \/ /\ local' \in {File(local.data \o d) : d \in Prefixes(parts[p].data)}
                      /\ Raise
                      /\ UNCHANGED <<parts, i>>
       ELSE /\ Return("True")
            /\ UNCHANGED <<local, parts, i>>
  /\ UNCHANGED <<env_vars, file_size, chunk_size, threads, temp_files, errors,
                 downloaded_bytes, w_pc, session, bytes_read, chunk_data,
                 lock_vars, sftp, printed>>

\* ------------------------------------------------------ download_chunk
\* errors.append(f"Chunk {chunk_idx}: ...") of lines 261 and 306, after
\* which the thread ends. Of the message the chunk index is kept.
FailAndRetry(c) ==
  /\ errors' = Append(errors, [chunk |-> c])
  /\ w_pc' = [w_pc EXCEPT ![c] = "connect"]

Fail(c) ==
  /\ errors' = Append(errors, [chunk |-> c])
  /\ w_pc' = [w_pc EXCEPT ![c] = "ended"]

\* Lines 248 and 272: the connection the thread reads through is one it
\* makes itself (paramiko.SSHClient(), ssh.open_sftp()).
SessionShared(c) == MainSession

SessionOf(c) == OwnSession(c)

\* Lines 248-270: no key class reads the key file (line 261), or
\* ssh.connect raises, or this chunk's own connection is open.
Connect(c) ==
  /\ w_pc[c] = "connect"
  /\ \/ /\ Fail(c)
        /\ UNCHANGED <<session, sftp>>
     \/ /\ session' = [session EXCEPT ![c] = "open"]
        /\ sftp' = [sftp EXCEPT ![c] = SessionOf(c)]
        /\ w_pc' = [w_pc EXCEPT ![c] = "open"]
        /\ errors' = errors
  /\ UNCHANGED <<env_vars, coord_vars, temp_files, downloaded_bytes,
                 bytes_read, chunk_data, parts, lock_vars>>

\* Line 280: the temporary of chunk c is local_path.part{c}.
TempOfNoIndex(c) == 0

TempOf(c) == c

\* Lines 272-287: open_sftp may raise; then the temporary's name is
\* appended to temp_files; then opening the remote file, the seek or
\* opening the temporary may raise; else the temporary is there, empty.
OpenFiles(c) ==
  /\ w_pc[c] = "open"
  /\ \/ /\ Fail(c)
        /\ UNCHANGED <<temp_files, parts, bytes_read>>
     \/ /\ temp_files' = Append(temp_files, TempOf(c))
        /\ Fail(c)
        /\ UNCHANGED <<parts, bytes_read>>
     \/ /\ temp_files' = Append(temp_files, TempOf(c))
        /\ parts' = [parts EXCEPT ![TempOf(c)] = File(<<>>)]
        /\ bytes_read' = [bytes_read EXCEPT ![c] = 0]
        /\ w_pc' = [w_pc EXCEPT ![c] = "loop"]
        /\ errors' = errors
  /\ UNCHANGED <<env_vars, coord_vars, downloaded_bytes, session, chunk_data,
                 lock_vars, sftp>>

\* Line 286.
BytesToRead(c) == ChunkEnd(c) - ChunkStart(c)

\* Lines 284 and 290: the read position is start (the seek) plus what
\* this thread has read since.
ReadPosNoSeek(c) == bytes_read[c]

ReadPos(c) == ChunkStart(c) + bytes_read[c]

\* Lines 289-294, one iteration up to the write: the loop ends when the
\* planned count is read, or at an empty read (line 292: break); the read
\* or the write may raise.
ReadBlock(c) ==
  /\ w_pc[c] = "loop"
  /\ IF bytes_read[c] < BytesToRead(c)
       THEN LET data == ReadAt(remote, ReadPos(c),
                               Min(ReadSize, BytesToRead(c) - bytes_read[c]))
            IN \/ /\ Fail(c)
                  /\ UNCHANGED <<parts, bytes_read, chunk_data>>
               \/ /\ chunk_data' = [chunk_data EXCEPT ![c] = data]
                  /\ errors' = errors
                  /\ IF data = <<>>
                       THEN /\ w_pc' = [w_pc EXCEPT ![c] = "close"]
                            /\ UNCHANGED <<parts, bytes_read>>
                       ELSE /\ parts' = [parts EXCEPT ![TempOf(c)] = File(@.data \o data)]
                            /\ bytes_read' = [bytes_read EXCEPT ![c] = @ + Len(data)]
                            /\ w_pc' = [w_pc EXCEPT ![c] = "progress"]
       ELSE /\ w_pc' = [w_pc EXCEPT ![c] = "close"]
            /\ UNCHANGED <<errors, parts, bytes_read, chunk_data>>
  /\ UNCHANGED <<env_vars, coord_vars, temp_files, downloaded_bytes, session,
                 lock_vars, sftp>>

\* Line 297: `with lock` waits until no thread holds the lock.
LockNotWaitedFor == TRUE

LockAvailable == ~lock

\* Lines 297-298, first half: the lock is taken and += reads the counter.
AcquireLock(c) ==
  /\ w_pc[c] = "progress"
  /\ LockAvailable
  /\ lock' = TRUE
  /\ loaded' = [loaded EXCEPT ![c] = downloaded_bytes]
  /\ cb_total' = cb_total
  /\ w_pc' = [w_pc EXCEPT ![c] = "locked"]
  /\ UNCHANGED <<env_vars, coord_vars, temp_files, errors, downloaded_bytes,
                 session, bytes_read, chunk_data, parts, sftp>>

\* Line 297: the with statement releases the lock when its block is left,
\* by a return of the callback or by an exception of it.
LockKeptWhenRaised(raised) == raised

LockAfterWith(raised) == FALSE

\* Lines 298-300: the first argument of progress_callback is the
\* counter just stored.
CallbackTotalOfThread(c) == bytes_read[c]

CallbackTotal(c) == loaded[c] + Len(chunk_data[c])

\* Lines 298-300: += stores the counter it read plus the bytes just read,
\* the callback is called, which may raise, and the with statement
\* releases the lock either way.
UpdateProgress(c) ==
  /\ w_pc[c] = "locked"
  /\ downloaded_bytes' = loaded[c] + Len(chunk_data[c])
  /\ cb_total' = CallbackTotal(c)
  /\ loaded' = [loaded EXCEPT ![c] = 0]
  /\ \/ /\ w_pc' = [w_pc EXCEPT ![c] = "loop"]
        /\ errors' = errors
        /\ lock' = LockAfterWith(FALSE)
     \/ /\ Fail(c)
        /\ lock' = LockAfterWith(TRUE)
  /\ UNCHANGED <<env_vars, coord_vars, temp_files, session, bytes_read,
                 chunk_data, parts, sftp>>

\* Lines 302-303.
CloseSession(c) ==
  /\ w_pc[c] = "close"
  /\ session' = [session EXCEPT ![c] = "closed"]
  /\ w_pc' = [w_pc EXCEPT ![c] = "ended"]
  /\ UNCHANGED <<env_vars, coord_vars, temp_files, errors, downloaded_bytes,
                 bytes_read, chunk_data, parts, lock_vars, sftp>>

\* ---------------------------------------------------------- the server
\* The remote file is cut short by another user of the server, once,
\* after the stat of line 228 and while the transfer runs.
Truncate ==
  /\ pc \in {"get", "plan", "spawn", "join"}
  /\ Len(remote) = file_size
  /\ \E cut \in 1..MaxCut :
       /\ cut <= Len(remote)
       /\ remote' = SubSeq(remote, 1, Len(remote) - cut)
  /\ UNCHANGED <<local_before, has_client, chunks, cache_vars, race_vars,
                 batch_vars, queue_vars, coord_vars, worker_vars>>

Next ==
  \/ NoClient
  \/ Stat
  \/ Get
  \/ Plan
  \/ StartThread
  \/ Join
  \/ CheckErrors
  \/ OpenOutput
  \/ Reassemble
  \/ \E c \in Workers : Connect(c)
  \/ \E c \in Workers : OpenFiles(c)
  \/ \E c \in Workers : ReadBlock(c)
  \/ \E c \in Workers : AcquireLock(c)
  \/ \E c \in Workers : UpdateProgress(c)
  \/ \E c \in Workers : CloseSession(c)
  \/ Truncate

Spec == Init /\ [][Next]_vars

\* The scheduler is fair: the thread that called download_file and each
\* thread it started take a step they can take. The remote file being
\* cut is not a step of the program and is not forced.
Coordinator ==
  \/ NoClient
  \/ Stat
  \/ Get
  \/ Plan
  \/ StartThread
  \/ Join
  \/ CheckErrors
  \/ OpenOutput
  \/ Reassemble

Worker(c) ==
  \/ Connect(c)
  \/ OpenFiles(c)
  \/ ReadBlock(c)
  \/ AcquireLock(c)
  \/ UpdateProgress(c)
  \/ CloseSession(c)

Fairness == WF_vars(Coordinator) /\ \A c \in Workers : WF_vars(Worker(c))

SpecFair == Spec /\ Fairness

\* ------------------------------------------------------ download_files
\* Lines 841-878: download_file has returned for one file and the loop
\* calls it for the next: another remote file, another destination (and
\* so other temporaries), new lists, counter and lock (lines 239-243),
\* the same connection and the same chunks (line 851). The threads of the
\* file left behind that have not ended go on running: stray counts them.
MaxFiles == 2

Running == {c \in Workers : w_pc[c] \notin {"unstarted", "ended"}}

NextFile ==
  /\ pc = "done"
  /\ file_no + 1 < MaxFiles
  /\ file_no' = file_no + 1
  /\ stray' = stray + Cardinality(Running)
  /\ \E n \in 0..MaxFileSize : remote' = RemoteContent(n)
  /\ local_before' \in {NoFile, OldFile}
  /\ local' = local_before'
  /\ parts' = [c \in Workers |-> NoFile]
  /\ pc' = "call"
  /\ ret' = "none"
  /\ file_size' = 0
  /\ chunk_size' = 0
  /\ temp_files' = <<>>
  /\ threads' = <<>>
  /\ errors' = <<>>
  /\ downloaded_bytes' = 0
  /\ i' = 0
  /\ w_pc' = [c \in Workers |-> "unstarted"]
  /\ session' = [c \in Workers |-> "none"]
  /\ bytes_read' = [c \in Workers |-> 0]
  /\ chunk_data' = [c \in Workers |-> <<>>]
  /\ sftp' = [c \in Workers |-> NoSession]
  /\ printed' = <<>>
  /\ lock' = FALSE
  /\ loaded' = [c \in Workers |-> 0]
  /\ cb_total' = 0
  /\ UNCHANGED <<has_client, chunks, cache_vars, race_vars, queue_vars>>

\* A thread of an earlier file ends.
StrayEnds ==
  /\ stray > 0
  /\ stray' = stray - 1
  /\ UNCHANGED <<file_no, remote, local, local_before, parts, has_client,
                 chunks, pc, ret, file_size, chunk_size, temp_files, threads,
                 errors, downloaded_bytes, i, w_pc, session, bytes_read,
                 chunk_data, lock, loaded, cb_total, sftp, printed, cache_vars,
                 race_vars, queue_vars>>

NextFiles ==
  \/ Next
  \/ NextFile
  \/ StrayEnds

SpecFiles == Init /\ [][NextFiles]_vars

\* ------------------------------------------------------- CacheManager
download_vars == <<remote, local, local_before, parts, has_client, chunks, pc,
                   ret, file_size, chunk_size, temp_files, threads, errors,
                   downloaded_bytes, i, w_pc, session, bytes_read,
                   chunk_data, lock, loaded, cb_total, sftp, printed,
                   batch_vars>>

\* No download is under way.
DownloadIdle ==
  /\ remote = <<>>
  /\ local_before = NoFile
  /\ local = local_before
  /\ parts = [c \in Workers |-> NoFile]
  /\ has_client = TRUE
  /\ chunks = 0
  /\ pc = "call"
  /\ ret = "none"
  /\ file_size = 0
  /\ chunk_size = 0
  /\ temp_files = <<>>
  /\ threads = <<>>
  /\ errors = <<>>
  /\ downloaded_bytes = 0
  /\ i = 0
  /\ w_pc = [c \in Workers |-> "unstarted"]
  /\ session = [c \in Workers |-> "none"]
  /\ bytes_read = [c \in Workers |-> 0]
  /\ chunk_data = [c \in Workers |-> <<>>]
  /\ sftp = [c \in Workers |-> NoSession]
  /\ printed = <<>>
  /\ lock = FALSE
  /\ loaded = [c \in Workers |-> 0]
  /\ cb_total = 0

\* Lines 387-410: the value get returns for the file f of the path's key.
\* No file: None (line 393). open or pickle.load raises (readable is
\* FALSE, or the bytes are no pickle): None (line 409). Too old: None
\* (line 403). Else the files, int(age) and the folder sizes.
GetResult(path, f, readable) ==
  IF ~f.exists THEN Op("get", path)
  ELSE IF ~readable THEN [Op("get", path) EXCEPT !.io_error = TRUE]
  ELSE LET d == Unpickle(f.data)
           age == Age(d.timestamp, now)
       IN IF ~d.ok \/ TooOld(age) THEN Op("get", path)
          ELSE [Op("get", path) EXCEPT !.hit = TRUE,
                                       !.files = d.files,
                                       !.age = WholeSeconds(age),
                                       !.folder_sizes = d.folder_sizes]

\* Lines 387-410 write no file and remove none.
CacheAfterGetEvicting(path) ==
  [k \in Keys |->
     IF /\ k = CacheKey(path)
        /\ cache[k].exists
        /\ Unpickle(cache[k].data).ok
        /\ TooOld(Age(Unpickle(cache[k].data).timestamp, now))
       THEN NoFile ELSE cache[k]]

CacheAfterGet(path) == cache

CacheGet(path) ==
  /\ \E readable \in BOOLEAN :
       op' = GetResult(path, cache[CacheKey(path)], readable)
  /\ cache' = CacheAfterGet(path)
  /\ UNCHANGED <<now, last_set, race_vars, download_vars,
                 queue_vars>>

\* The lengths a file can have when a write of bytes in blocks of
\* WriteSize raised before the last block.
PartialLengths(bytes) ==
  {n \in 0..(Len(bytes) - 1) : n % WriteSize = 0}

\* What the file f is once bytes were written to it after the open of
\* line 423, from the position the open leaves.
Written423(f, bytes) ==
  LET o == OpenedForWrite(f)
  IN [exists |-> TRUE, data |-> WriteAt(o.data, Len(o.data), bytes)]

\* Lines 412-424, called by one thread: the open raises and the file is
\* as it was; or a write raises and the file holds the blocks written
\* before; or all bytes are written and set returns. An exception
\* leaves set (there is no try).
CacheSet(path, files, folder_sizes) ==
  LET k == CacheKey(path)
      bytes == Pickle(CacheData(now, files, folder_sizes))
  IN /\ \/ /\ op' = [Op("set", path) EXCEPT !.raised = TRUE]
           /\ UNCHANGED <<cache, last_set>>
        \/ /\ \E n \in PartialLengths(bytes) :
                cache' = [cache EXCEPT ![k] = Written423(@, SubSeq(bytes, 1, n))]
           /\ op' = [Op("set", path) EXCEPT !.raised = TRUE]
           /\ last_set' = [last_set EXCEPT ![path] = NotSet]
        \/ /\ cache' = [cache EXCEPT ![k] = Written423(@, bytes)]
           /\ op' = [Op("set", path) EXCEPT
                       !.replaced = Unpickle(cache[k].data).folder_sizes]
           /\ last_set' = [last_set EXCEPT ![path] =
                             [set |-> TRUE, timestamp |-> now, files |-> files,
                              folder_sizes |-> folder_sizes, fetched |-> now]]
     /\ UNCHANGED <<now, race_vars, download_vars,
                 queue_vars>>

\* Lines 427 and 433: the files glob("*.cache") finds, one per key that
\* has a file.
CacheFiles == {k \in Keys : cache[k].exists}

\* Line 429: cache_file.unlink() removes the file.
Emptied(f) == IF f.exists THEN File(<<>>) ELSE NoFile

Unlinked(f) == NoFile

\* Lines 426-429; count is the number of files the loop went through.
CacheClear ==
  /\ cache' = [k \in Keys |-> IF k \in CacheFiles THEN Unlinked(cache[k]) ELSE cache[k]]
  /\ last_set' = [path \in Paths |-> NotSet]
  /\ op' = [Op("clear", "") EXCEPT !.count = Cardinality(CacheFiles)]
  /\ UNCHANGED <<now, race_vars, download_vars,
                 queue_vars>>

\* Lines 431-436: the number of cache files (their sizes are left out).
GetStats ==
  /\ op' = [Op("get_stats", "") EXCEPT
              !.count = Cardinality(CacheFiles)]
  /\ UNCHANGED <<cache, now, last_set, race_vars, download_vars,
                 queue_vars>>

\* Time passes.
Tick ==
  /\ now < MaxTime
  /\ now' = now + 1
  /\ UNCHANGED <<cache, op, last_set, race_vars, download_vars,
                 queue_vars>>

InitCache == CacheInit /\ BatchInit /\ QueueInit /\ DownloadIdle

NextCache ==
  \/ \E path \in Paths : CacheGet(path)
  \/ \E path \in Paths, files \in Listings, folder_sizes \in SizeArgs :
       CacheSet(path, files, folder_sizes)
  \/ CacheClear
  \/ GetStats
  \/ Tick

SpecCache == InitCache /\ [][NextCache]_vars

\* ------------------------------------------------------- browse_files
\* What list_directory can return (lines 191-214): a listing, which may
\* be empty, or [] when listdir_attr raised. And the sizes that
\* get_directory_size can return for a directory.
RemoteListings == Listings \cup {<<>>}
DirSizes == {0, 5}

\* self.current_path (line 553) while browsing.
CurrentPaths == {"/data"}

\* Lines 603-609: with SHOW_FOLDER_SIZES, every directory of files that
\* has no size in folder_sizes gets the size computed; else folder_sizes
\* stays.
RECURSIVE WithDirSizes(_, _, _)
WithDirSizes(files, folder_sizes, size) ==
  IF files = <<>> THEN folder_sizes
  ELSE LET e == files[1]
           known == \E k \in 1..Len(folder_sizes) : folder_sizes[k][1] = e
       IN WithDirSizes(Tail(files),
                       IF IsDir(e) /\ ~known
                         THEN Append(folder_sizes, <<e, size>>)
                         ELSE folder_sizes,
                       size)

\* Line 619: the listing is stored when it is not empty and came from
\* the server or folder sizes were computed for it.
Stores(files, hit, need) == files # <<>> /\ (~hit \/ need)

\* Lines 543-620, one round of the loop up to the set: the listing comes
\* from the cache (line 553) unless force_refresh, else from the server
\* (line 562); an empty one ends browse_files (lines 569-572); the
\* folder sizes are completed when shown; the set of line 620 is made
\* when Stores, and may raise as CacheSet does. (A get that cannot read
\* the file returns None, which is the case of force_refresh here.)
Browse(path, force_refresh, show_folder_sizes, listing, list_ok) ==
  \E size \in DirSizes :
    LET k == CacheKey(path)
        cached == IF force_refresh THEN Op("get", path)
                  ELSE GetResult(path, cache[k], TRUE)
        files == IF cached.hit THEN cached.files
                 ELSE IF list_ok THEN listing ELSE <<>>
        has_dirs == \E n \in 1..Len(files) : IsDir(files[n])
        need == show_folder_sizes /\ has_dirs /\ cached.folder_sizes = <<>>
        folder_sizes == IF show_folder_sizes
                          THEN WithDirSizes(files, cached.folder_sizes, size)
                          ELSE cached.folder_sizes
        bytes == Pickle(CacheData(now, files, DictArg(folder_sizes)))
        done == [Op("browse", path) EXCEPT !.hit = cached.hit,
                                           !.files = files,
                                           !.folder_sizes = folder_sizes,
                                           !.listed = ~cached.hit /\ list_ok]
    IN /\ IF Stores(files, cached.hit, need)
            THEN \/ /\ op' = [done EXCEPT !.raised = TRUE]
                    /\ UNCHANGED <<cache, last_set>>
                 \/ /\ \E n \in PartialLengths(bytes) :
                         cache' = [cache EXCEPT ![k] = Written423(@, SubSeq(bytes, 1, n))]
                    /\ op' = [done EXCEPT !.raised = TRUE]
                    /\ last_set' = [last_set EXCEPT ![path] = NotSet]
                 \/ /\ cache' = [cache EXCEPT ![k] = Written423(@, bytes)]
                    /\ op' = done
                    /\ last_set' = [last_set EXCEPT ![path] =
                                      [set |-> TRUE, timestamp |-> now, files |-> files,
                                       folder_sizes |-> DictArg(folder_sizes),
                                       fetched |-> IF cached.hit
                                                     THEN last_set[path].fetched
                                                     ELSE now]]
            ELSE /\ op' = done
                 /\ UNCHANGED <<cache, last_set>>
       /\ UNCHANGED <<now, race_vars, download_vars,
                 queue_vars>>

NextBrowse ==
  \/ \E path \in CurrentPaths, force_refresh \in BOOLEAN,
        show_folder_sizes \in BOOLEAN,
        listing \in RemoteListings, list_ok \in BOOLEAN :
       Browse(path, force_refresh, show_folder_sizes, listing, list_ok)
  \/ Tick

SpecBrowse == InitCache /\ [][NextBrowse]_vars

\* ------------------------------------- CacheManager.set, two threads
\* Two threads call set for the same path at the same time; each call
\* is the steps a thread takes on the file: the open, then pickle.dump
\* writing the bytes in blocks of WriteSize at the position of its own
\* open file, then the return. set takes no lock. No write fails here.
RacePath == "/data"

\* Lines 414-423: the dict is built with the time of the call, and the
\* file is opened: created, or cut to nothing.
SetOpen(t, files, folder_sizes) ==
  /\ s_pc[t] = "idle"
  /\ s_data' = [s_data EXCEPT ![t] = Pickle(CacheData(now, files, folder_sizes))]
  /\ cache' = [cache EXCEPT ![CacheKey(RacePath)] = OpenedForWrite(@)]
  /\ s_off' = [s_off EXCEPT ![t] = 0]
  /\ s_pc' = [s_pc EXCEPT ![t] = "writing"]
  /\ UNCHANGED <<now, op, last_set, g_pc, g_buf, download_vars,
                 queue_vars>>

\* Line 424: the next block goes to the file at this thread's position;
\* after the last block the file is closed and set returns.
SetWrite(t) ==
  /\ s_pc[t] = "writing"
  /\ LET k == CacheKey(RacePath)
         end == Min(s_off[t] + WriteSize, Len(s_data[t]))
         block == SubSeq(s_data[t], s_off[t] + 1, end)
     IN /\ cache' = [cache EXCEPT ![k] =
                       [exists |-> TRUE, data |-> WriteAt(@.data, s_off[t], block)]]
        /\ s_off' = [s_off EXCEPT ![t] = end]
        /\ s_pc' = [s_pc EXCEPT ![t] =
                      IF end = Len(s_data[t]) THEN "returned" ELSE "writing"]
  /\ UNCHANGED <<now, op, last_set, s_data, g_pc, g_buf, download_vars,
                 queue_vars>>

\* Time passes between the calls.
RaceTick ==
  /\ now < MaxTime
  /\ now' = now + 1
  /\ UNCHANGED <<cache, op, last_set, race_vars, download_vars,
                 queue_vars>>

NextCacheRace ==
  \/ \E t \in Threads, files \in Listings, folder_sizes \in SizeArgs :
       SetOpen(t, files, folder_sizes)
  \/ \E t \in Threads : SetWrite(t)
  \/ RaceTick

SpecCacheRace == InitCache /\ [][NextCacheRace]_vars

\* ------------------------------ CacheManager.get while set is running
\* One thread calls get for the path while another calls set for it; the
\* calls of set follow each other, none starts while one is writing. get
\* takes no lock either: pickle.load reads the open file in blocks, as
\* the file is at the time of each read.
SetAlone(t, files, folder_sizes) ==
  /\ \A u \in Threads : s_pc[u] # "writing"
  /\ SetOpen(t, files, folder_sizes)

\* Lines 389-396: no file, and get returns None; else the file is opened.
GetOpen ==
  /\ g_pc \in {"idle", "returned"}
  /\ g_buf' = <<>>
  /\ IF cache[CacheKey(RacePath)].exists
       THEN /\ g_pc' = "reading"
            /\ op' = op
       ELSE /\ g_pc' = "returned"
            /\ op' = GetResult(RacePath, NoFile, TRUE)
  /\ UNCHANGED <<cache, now, last_set, s_pc, s_data, s_off, download_vars,
                 queue_vars>>

\* Lines 397-409: pickle.load reads the next block at its position. No
\* bytes there: it raises and get returns None (line 409). The bytes
\* read so far hold a whole pickle: lines 399-407 on its dict. Else it
\* reads on.
GetRead ==
  /\ g_pc = "reading"
  /\ LET block == ReadAt(cache[CacheKey(RacePath)].data, Len(g_buf), WriteSize)
         buf == g_buf \o block
     IN /\ g_buf' = buf
        /\ IF block = <<>> \/ Unpickle(buf).ok
             THEN /\ g_pc' = "returned"
                  /\ op' = GetResult(RacePath, File(buf), TRUE)
             ELSE /\ g_pc' = "reading"
                  /\ op' = op
  /\ UNCHANGED <<cache, now, last_set, s_pc, s_data, s_off, download_vars,
                 queue_vars>>

NextGetRace ==
  \/ \E t \in Threads, files \in Listings, folder_sizes \in SizeArgs :
       SetAlone(t, files, folder_sizes)
  \/ \E t \in Threads : SetWrite(t)
  \/ GetOpen
  \/ GetRead
  \/ RaceTick

SpecGetRace == InitCache /\ [][NextGetRace]_vars

\* ------------------------------------------------ the download queue
\* remote_scanner.py, class Database, and the routes of web_app.py that
\* change table downloads. A row of downloads is its id, its file_id and
\* its status; the texts of a row (local_path, notes, download_date) are
\* left out. remote_files has no DELETE, and the foreign key of line 82
\* is not enforced: no PRAGMA foreign_keys is given.
MaxDownloads == 3
FileIds == {1, 2}
DownloadIds == 1..MaxDownloads

not_queue_vars == <<cache_vars, race_vars, download_vars>>

QOp(kind, id, found) == [kind |-> kind, id |-> id, found |-> found]

\* Lines 115-143, add_or_update_file: a file scanned is a row of
\* remote_files from then on.
ScanFile(file_id) ==
  /\ q_files' = q_files \cup {file_id}
  /\ q_op' = QOp("scan", 0, FALSE)
  /\ UNCHANGED <<q_rows, q_next, not_queue_vars>>

\* Lines 145-152, queue_file: a new row, with the next id and status
\* 'queued'.
QueueFile(file_id) ==
  /\ q_next <= MaxDownloads
  /\ q_rows' = q_rows \cup {[id |-> q_next, file_id |-> file_id, status |-> "queued"]}
  /\ q_next' = q_next + 1
  /\ q_op' = QOp("queue", q_next, FALSE)
  /\ UNCHANGED <<q_files, not_queue_vars>>

\* remote_scanner.py, lines 558-565 (--queue): only a file that
\* get_file_by_id finds is queued.
QueueFromCli(file_id) ==
  /\ file_id \in q_files
  /\ QueueFile(file_id)

\* web_app.py, lines 210-218 (/api/queue/add): every id of the request
\* that int() takes is queued, be there a file of that id or not.
QueueFromWeb(file_id) ==
  /\ file_id \in Int
  /\ QueueFile(file_id)

\* Lines 194-221, add_note: the notes of the newest row of the file are
\* updated, or, when the file has no row, one is made with status
\* 'noted'.
AddNote(file_id) ==
  /\ IF \E r \in q_rows : r.file_id = file_id
       THEN UNCHANGED <<q_rows, q_next>>
       ELSE /\ q_next <= MaxDownloads
            /\ q_rows' = q_rows \cup {[id |-> q_next, file_id |-> file_id, status |-> "noted"]}
            /\ q_next' = q_next + 1
  /\ q_op' = QOp("note", 0, FALSE)
  /\ UNCHANGED <<q_files, not_queue_vars>>

\* Lines 175-192, update_download_status, as its callers call it (lines
\* 640 and 645): with 'completed' or with 'failed'. No row of that id: no
\* row is updated.
Statuses == {"completed", "failed"}

UpdateDownloadStatus(download_id, status) ==
  /\ q_rows' = {IF r.id = download_id THEN [r EXCEPT !.status = status] ELSE r : r \in q_rows}
  /\ q_op' = QOp(status, download_id, FALSE)
  /\ UNCHANGED <<q_files, q_next, not_queue_vars>>

\* Line 286: DELETE FROM downloads WHERE status = 'queued'.
ClearQueue ==
  /\ q_rows' = {r \in q_rows : r.status # "queued"}
  /\ q_op' = QOp("clear_queue", 0, FALSE)
  /\ UNCHANGED <<q_files, q_next, not_queue_vars>>

\* web_app.py, line 233: DELETE FROM downloads WHERE id = ? AND status =
\* 'queued'.
DeletedWhateverStatus(r, download_id) == r.id = download_id

Deleted(r, download_id) == r.id = download_id /\ r.status = "queued"

\* web_app.py, lines 228-239, remove_from_queue: found is rowcount > 0.
RemoveFromQueue(download_id) ==
  /\ q_rows' = {r \in q_rows : ~Deleted(r, download_id)}
  /\ q_op' = QOp("remove", download_id, \E r \in q_rows : Deleted(r, download_id))
  /\ UNCHANGED <<q_files, q_next, not_queue_vars>>

\* Lines 154-173, get_queued_files: the rows of downloads with status
\* 'queued' that JOIN finds a row of remote_files for, ORDER BY d.id; of
\* each row the download id.
RECURSIVE Ascending(_)
Ascending(ids) ==
  IF ids = {} THEN <<>>
  ELSE LET least == CHOOSE x \in ids : \A y \in ids : x <= y
       IN <<least>> \o Ascending(ids \ {least})

GetQueuedFiles ==
  Ascending({r.id : r \in {d \in q_rows : d.status = "queued" /\ d.file_id \in q_files}})

ShowQueue ==
  /\ q_op' = QOp("show", 0, GetQueuedFiles # <<>>)
  /\ UNCHANGED <<q_files, q_rows, q_next, not_queue_vars>>

NextQueue ==
  \/ \E file_id \in FileIds : ScanFile(file_id)
  \/ \E file_id \in FileIds : QueueFromCli(file_id)
  \/ \E file_id \in FileIds : QueueFromWeb(file_id)
  \/ \E file_id \in FileIds : AddNote(file_id)
  \/ \E download_id \in DownloadIds, status \in Statuses :
       UpdateDownloadStatus(download_id, status)
  \/ ClearQueue
  \/ \E download_id \in DownloadIds : RemoveFromQueue(download_id)
  \/ ShowQueue

SpecQueue == InitCache /\ [][NextQueue]_vars

\* ---------------------------------------------- the plan, in real bytes
\* The division of line 236 and the bounds of lines 310-311 for sizes in
\* bytes: download_file stands at line 235 with the size of the stat, at
\* least the limit of line 231, and takes the one step Plan. The bytes
\* of the files are left out: the plan reads file_size and chunks only.
MiB == 1024 * 1024
PlanMinMiB == 10
PlanMaxMiB == 25
PlanMaxRest == 2
PlanMaxChunks == 4

PlanSizes == {m * MiB + r : m \in PlanMinMiB..PlanMaxMiB, r \in 0..PlanMaxRest}

InitPlan ==
  /\ file_size \in PlanSizes
  /\ chunks \in 0..PlanMaxChunks
  /\ pc = "plan"
  /\ remote = <<>>
  /\ local_before = NoFile
  /\ local = local_before
  /\ parts = [c \in Workers |-> NoFile]
  /\ has_client = TRUE
  /\ ret = "none"
  /\ chunk_size = 0
  /\ temp_files = <<>>
  /\ threads = <<>>
  /\ errors = <<>>
  /\ downloaded_bytes = 0
  /\ i = 0
  /\ w_pc = [c \in Workers |-> "unstarted"]
  /\ session = [c \in Workers |-> "none"]
  /\ bytes_read = [c \in Workers |-> 0]
  /\ chunk_data = [c \in Workers |-> <<>>]
  /\ sftp = [c \in Workers |-> NoSession]
  /\ printed = <<>>
  /\ lock = FALSE
  /\ loaded = [c \in Workers |-> 0]
  /\ cb_total = 0
  /\ CacheInit
  /\ BatchInit
  /\ QueueInit

SpecPlan == InitPlan /\ [][Plan]_vars

\* ================================================================ claims
\* The chunks that download_file planned, and the chunked path.
ChunkIds == 0..(chunks - 1)
Chunked == pc \in {"spawn", "join", "check", "open_output", "reassemble"}
Succeeded == pc = "done" /\ ret = "True"
Failed == pc = "done" /\ ret = "False"
ErrorOf(c) == \E k \in 1..Len(errors) : errors[k].chunk = c

\* C1: once any chunk worker has recorded an error, the destination is
\* what it was before the call, whatever the workers do and in whatever
\* order they end, and download_file, when it returns, returns False.
C1_ErrorLeavesDestination ==
  errors # <<>> => /\ local = local_before
                   /\ pc = "done" => ret = "False"

\* One worker failed after the other had written its whole temporary, the
\* destination held a file before, and download_file has returned.
C1_Witness ==
  /\ Failed
  /\ local_before = OldFile
  /\ Len(errors) = 1
  /\ \E c \in Workers : parts[c].exists /\ parts[c].data # <<>> /\ ~ErrorOf(c)

\* C2: on the chunked path (size at or above the limit, chunks >= 1) the
\* ranges of the threads are contiguous and cover [0, file_size): range 0
\* starts at 0, each starts where the one before ends, the last ends at
\* file_size, none is reversed, and once all are started there is one
\* thread per index 0..chunks-1; below the limit no thread is started
\* and the whole file goes in the one get of line 232.
C2_RangesPartition ==
  /\ (Chunked /\ chunks >= 1) =>
       /\ ~IsSmallFile(file_size)
       /\ ChunkStart(0) = 0
       /\ ChunkEnd(chunks - 1) = file_size
       /\ \A c \in ChunkIds : ChunkStart(c) <= ChunkEnd(c)
       /\ \A c \in ChunkIds : c + 1 \in ChunkIds => ChunkEnd(c) = ChunkStart(c + 1)
       /\ Len(threads) <= chunks
       /\ \A k \in 1..Len(threads) : threads[k] = k - 1
       /\ pc # "spawn" => Len(threads) = chunks
  /\ pc = "get" => IsSmallFile(file_size)
  /\ IsSmallFile(file_size) => threads = <<>> /\ ~Chunked

\* Two threads are started on a file whose size chunks does not divide.
C2_Witness ==
  /\ pc = "join"
  /\ chunks = 2
  /\ Len(threads) = 2
  /\ file_size # 2 * chunk_size

\* C3: a thread that ended with fewer bytes read than its planned count
\* (a short or empty read came first) has recorded an error for its
\* chunk, so that download_file cannot return True on a short temporary.
C3_ShortReadIsError ==
  \A c \in Workers :
    (w_pc[c] = "ended" /\ bytes_read[c] < BytesToRead(c)) => ErrorOf(c)

\* C4: whenever download_file returns True, the destination file is there
\* and its size is the file_size that stat gave at line 228 (stated of
\* the reassembled file of a transfer with chunks >= 1).
C4_SuccessHasTotalSize ==
  (Succeeded /\ ~IsSmallFile(file_size) /\ chunks >= 1) =>
    local.exists /\ Len(local.data) = file_size

\* C5: after download_file returns, either it returned True and the
\* destination holds all file_size bytes of the remote file, or it
\* returned False and the call produced no file at the destination (what
\* was there before is there still). Stated of the chunked path with
\* chunks >= 1; the claim says the same of the whole-file path.
C5_NoSilentPartial ==
  (pc = "done" /\ ~IsSmallFile(file_size) /\ chunks >= 1) =>
    \/ ret = "True" /\ local = File(RemoteContent(file_size))
    \/ ret = "False" /\ local = local_before

\* C6: with chunks <= 0, download_file does not return True and does not
\* create or change the destination file (stated of the files at or
\* above the limit, for which chunks is used).
C6_BadDegreeFails ==
  (chunks <= 0 /\ pc = "done" /\ ~IsSmallFile(file_size)) =>
    ret = "False" /\ local = local_before

\* What the thread of chunk c wrote to its temporary: the bytes_read[c]
\* bytes of the remote file from its start on.
Written(c) ==
  SubSeq(RemoteContent(file_size), ChunkStart(c) + 1, ChunkStart(c) + bytes_read[c])

RECURSIVE InIndexOrder(_)
InIndexOrder(k) == IF k <= 0 THEN <<>> ELSE InIndexOrder(k - 1) \o Written(k - 1)

\* C7: during and after the reassembly the destination holds what the
\* threads of chunks 0..i-1 wrote, in ascending index order, whatever the
\* order in which the threads opened their temporaries (temp_files) or
\* ended; on return True these are all chunks. So with the remote file
\* left as it was, every interleaving that returns True with chunks >= 1
\* leaves the same bytes: the remote file's.
C7_IndexOrder ==
  /\ pc = "reassemble" => local = File(InIndexOrder(i))
  /\ (Succeeded /\ ~IsSmallFile(file_size)) => local = File(InIndexOrder(chunks))
  /\ (Succeeded /\ ~IsSmallFile(file_size) /\ chunks >= 1 /\ Len(remote) = file_size) =>
       local = File(remote)

\* download_file returned True after the thread of chunk 1 opened its
\* temporary before that of chunk 0 and both wrote bytes.
C7_Witness ==
  /\ Succeeded
  /\ temp_files = <<1, 0>>
  /\ bytes_read[0] > 0
  /\ bytes_read[1] > 0

\* C8: round trip. When every thread wrote exactly its planned range and
\* download_file returned True, the destination is the remote file, byte
\* for byte.
C8_RoundTrip ==
  ( /\ Succeeded
    /\ ~IsSmallFile(file_size)
    /\ chunks >= 1
    /\ \A c \in ChunkIds : bytes_read[c] = BytesToRead(c) )
  => local = File(RemoteContent(file_size))

\* Two chunks of different lengths, both whole, were reassembled.
C8_Witness ==
  /\ Succeeded
  /\ chunks = 2
  /\ BytesToRead(0) < BytesToRead(1)
  /\ \A c \in ChunkIds : bytes_read[c] = BytesToRead(c)
  /\ local = File(RemoteContent(file_size))

\* A step of the thread of chunk c.
WorkerStep(c) ==
  \/ Connect(c)
  \/ OpenFiles(c)
  \/ ReadBlock(c)
  \/ AcquireLock(c)
  \/ UpdateProgress(c)
  \/ CloseSession(c)

\* C9: the error list is looked at (line 322), and the reassembly runs,
\* only when every thread that was started has ended; and whatever errors
\* other threads have recorded, a thread that has not ended can take its
\* next step, or waits for the lock that a thread holds which can take
\* its next step: nothing cancels it.
C9_JoinAll ==
  /\ pc \in {"check", "open_output", "reassemble"} =>
       \A c \in ChunkIds : w_pc[c] = "ended"
  /\ (Succeeded /\ ~IsSmallFile(file_size)) =>
       \A c \in ChunkIds : w_pc[c] = "ended"
  /\ \A c \in Workers :
       w_pc[c] \notin {"unstarted", "ended"} =>
         \/ ENABLED WorkerStep(c)
         \/ /\ w_pc[c] = "progress"
            /\ \E d \in Workers : w_pc[d] = "locked" /\ ENABLED WorkerStep(d)

\* The errors are about to be looked at: chunk 0 failed first, and chunk 1
\* went on to read its whole range and close its connection.
C9_Witness ==
  /\ pc = "check"
  /\ chunks = 2
  /\ Len(errors) = 1
  /\ errors[1].chunk = 0
  /\ parts[0].exists
  /\ session[1] = "closed"
  /\ bytes_read[1] = BytesToRead(1)
  /\ downloaded_bytes > BytesToRead(1)

\* C10: when a chunked transfer with chunks >= 1 returned True, the
\* progress counter holds file_size exactly.
C10_ProgressTotal ==
  (Succeeded /\ ~IsSmallFile(file_size) /\ chunks >= 1) =>
    downloaded_bytes = file_size

\* The bytes of the reads of thread c whose progress update is complete:
\* all it has read but the block whose update it is waiting or in the
\* middle of.
Completed(c) ==
  bytes_read[c] - (IF w_pc[c] \in {"progress", "locked"} THEN Len(chunk_data[c]) ELSE 0)

RECURSIVE SumCompleted(_)
SumCompleted(n) == IF n <= 0 THEN 0 ELSE SumCompleted(n - 1) + Completed(n - 1)

\* C11: at most one thread is between taking and releasing the lock, and
\* no increment is lost: at every moment the counter is the sum, over
\* all threads, of the bytes of the reads whose update is complete.
C11_NoLostUpdate ==
  /\ Cardinality({c \in Workers : w_pc[c] = "locked"}) <= 1
  /\ lock <=> \E c \in Workers : w_pc[c] = "locked"
  /\ downloaded_bytes = SumCompleted(MaxChunks)

\* One thread holds the lock while another waits for it, both with bytes
\* to add, and the counter already counts earlier reads.
C11_Witness ==
  /\ w_pc[0] = "progress"
  /\ w_pc[1] = "locked"
  /\ Len(chunk_data[0]) > 0
  /\ Len(chunk_data[1]) > 0
  /\ downloaded_bytes > 0

\* C12: a thread that has ended has left no connection of its own open,
\* whichever way it ended; so none is open once download_file has
\* returned and all threads have ended.
C12_SessionsClosed ==
  \A c \in Workers : w_pc[c] = "ended" => session[c] # "open"

\* The threads whose entries are in the error list, and those whose
\* temporaries are in temp_files.
ErrorWriters == {errors[k].chunk : k \in 1..Len(errors)}
TempFilesWriters == {temp_files[k] : k \in 1..Len(temp_files)}

C14_OwnSessionOwnTemp ==
  /\ \A c \in Workers :
       sftp[c] # NoSession =>
         /\ sftp[c] # MainSession
         /\ sftp[c].of = "thread" /\ sftp[c].chunk = c
         /\ \A d \in Workers \ {c} : sftp[d] # sftp[c]
  /\ \A c \in Workers : session[c] = "open" => sftp[c] # NoSession
  /\ \A c, d \in Workers : c # d => TempOf(c) # TempOf(d)
  /\ \A c \in Workers :
       parts[c].exists => /\ w_pc[c] \notin {"unstarted", "connect", "open"}
                          /\ c \in TempFilesWriters
  /\ (\E c \in Workers : w_pc[c] \notin {"unstarted", "ended"}) =>
       local = local_before

\* Two threads run at once, each with its connection open and bytes in
\* its temporary, and a file was at the destination before the call.
C14_Witness ==
  /\ \A c \in Workers :
       /\ w_pc[c] = "loop"
       /\ session[c] = "open"
       /\ parts[c].data # <<>>
  /\ local_before = OldFile

\* C15: when download_file has returned False with errors in the list,
\* nothing was removed: the temporary of every thread that closed its
\* connection or wrote bytes still holds what that thread wrote, and the
\* destination is what it was before the call (absent if it was absent).
C15_TempsKeptOnFailure ==
  (Failed /\ errors # <<>>) =>
    /\ \A c \in Workers :
         (session[c] = "closed" \/ bytes_read[c] > 0) =>
           parts[c] = File(Written(c))
    /\ local = local_before

\* download_file has printed an error of chunk 1 and returned False;
\* chunk 0 ended without error and its temporary holds its range; no file
\* was at the destination before.
C15_Witness ==
  /\ Failed
  /\ printed # <<>>
  /\ ErrorWriters = {1}
  /\ session[0] = "closed"
  /\ parts[0] = File(Written(0))
  /\ bytes_read[0] > 0
  /\ local_before = NoFile

\* C16: a chunk is tried once. A thread enters its code only by being
\* started, as the next entry of threads, from never having run; once
\* it has ended it stays ended; once its error is in the list the error
\* stays, the thread does nothing more and download_file can only
\* return False.
C16_NoRetry ==
  [][\A c \in Workers :
       /\ w_pc[c] = "ended" => w_pc'[c] = "ended"
       /\ (w_pc'[c] = "connect" /\ w_pc[c] # "connect") =>
            /\ w_pc[c] = "unstarted"
            /\ threads' = Append(threads, c)
            /\ \A k \in 1..Len(threads) : threads[k] # c
       /\ ErrorOf(c) =>
            /\ w_pc[c] = "ended"
            /\ \E k \in 1..Len(errors') : errors'[k].chunk = c
            /\ pc' = "done" => ret' = "False"]_vars

\* Both chunks were started; chunk 0 failed and was not run again, chunk
\* 1 ended without error, and download_file returned False.
C16_Witness ==
  /\ threads = <<0, 1>>
  /\ ErrorWriters = {0}
  /\ Len(errors) = 1
  /\ w_pc[0] = "ended"
  /\ session[1] = "closed"
  /\ Failed

\* The number of entries of the error list that carry chunk index c.
ErrorCount(c) == Cardinality({k \in 1..Len(errors) : errors[k].chunk = c})

\* C17: a thread that has not ended has no entry in the error list; one
\* that ended having closed its connection (the normal end) has none; one
\* that ended otherwise has exactly one, with its own index. What
\* download_file prints when it finds errors is the whole list, so it
\* names every chunk that failed.
C17_OneResultPerChunk ==
  /\ \A c \in Workers :
       ErrorCount(c) = IF w_pc[c] = "ended" /\ session[c] # "closed" THEN 1 ELSE 0
  /\ Len(errors) <= MaxChunks
  /\ printed # <<>> =>
       /\ printed = errors
       /\ {printed[k].chunk : k \in 1..Len(printed)} =
            {c \in Workers : w_pc[c] = "ended" /\ session[c] # "closed"}

\* Both chunks failed and download_file printed both errors.
C17_Witness ==
  /\ \A c \in Workers : w_pc[c] = "ended" /\ ErrorCount(c) = 1
  /\ Len(printed) = 2
  /\ Failed

\* C18: once the stat has given a size below the limit of line 231,
\* whatever chunks is (0 and negative included), download_file is at the
\* one get of line 232 or has returned: no thread was started, no
\* connection made, no temporary named or created; and when it returned
\* True the destination is the whole remote file.
C18_SmallFileDirect ==
  (pc # "call" /\ has_client /\ file_size < SmallFileLimit) =>
    /\ pc \in {"get", "done"}
    /\ threads = <<>>
    /\ temp_files = <<>>
    /\ errors = <<>>
    /\ downloaded_bytes = 0
    /\ \A c \in Workers :
         /\ w_pc[c] = "unstarted"
         /\ session[c] = "none"
         /\ sftp[c] = NoSession
         /\ parts[c] = NoFile
    /\ Succeeded => local = File(remote)

\* A file of one byte less than the limit was fetched with chunks = 0,
\* over a file that was at the destination.
C18_Witness ==
  /\ Succeeded
  /\ file_size = SmallFileLimit - 1
  /\ chunks = 0
  /\ local = File(RemoteContent(SmallFileLimit - 1))
  /\ local_before = OldFile

\* The length of the range of chunk c, and the lengths of all ranges.
RangeLength(c) == ChunkEnd(c) - ChunkStart(c)
RangeLengths == [k \in 1..chunks |-> RangeLength(k - 1)]

RECURSIVE SumLengths(_)
SumLengths(n) == IF n <= 0 THEN 0 ELSE SumLengths(n - 1) + RangeLength(n - 1)

\* C19: once the plan is made for chunks = N >= 1, each of the ranges
\* 0..N-2 is floor(file_size / N) bytes long, the last is
\* file_size - (N-1) * floor(file_size / N) bytes long, and the lengths
\* add up to file_size.
C19_RangeLengths ==
  (pc = "spawn" /\ chunks >= 1) =>
    /\ \A c \in ChunkIds :
         RangeLength(c) =
           IF c < chunks - 1
             THEN file_size \div chunks
             ELSE file_size - (chunks - 1) * (file_size \div chunks)
    /\ SumLengths(chunks) = file_size

\* A plan of three ranges for a size that three does not divide: the
\* last range is longer than the others.
C19_Witness ==
  /\ pc = "spawn"
  /\ chunks = 3
  /\ file_size = PlanMinMiB * MiB
  /\ RangeLength(2) = RangeLength(0) + 1

\* C20 as stated: 25 MiB in 4 ranges gives the lengths 6291456, 6291456,
\* 6291456, 6291458.
C20_Lengths25MiB ==
  (pc = "spawn" /\ file_size = 25 * MiB /\ chunks = 4) =>
    RangeLengths = <<6291456, 6291456, 6291456, 6291458>>

\* C20, amended: 25 MiB (26214400 bytes) in 4 ranges gives four ranges
\* of 6553600 bytes; the lengths 6291456, 6291456, 6291456, 6291458 are
\* those of a file of 24 MiB + 2 bytes (25165826 bytes).
C20_Lengths25MiBExact ==
  /\ (pc = "spawn" /\ file_size = 25 * MiB /\ chunks = 4) =>
       RangeLengths = <<6553600, 6553600, 6553600, 6553600>>
  /\ (pc = "spawn" /\ file_size = 24 * MiB + 2 /\ chunks = 4) =>
       RangeLengths = <<6291456, 6291456, 6291456, 6291458>>

\* The plan of 4 ranges for 25 MiB is made.
C20_Witness ==
  /\ pc = "spawn"
  /\ file_size = 26214400
  /\ chunks = 4
  /\ chunk_size = 6553600

\* C21: during the reassembly the temporaries of the chunks already
\* appended (indices below i) are removed and those of the chunks still
\* to come hold what their threads wrote; so they go one by one in index
\* order, each once it is appended, and when download_file has returned
\* True for a file on the chunked path no temporary is left.
C21_TempsDeletedInOrder ==
  /\ (pc = "reassemble" /\ chunks >= 1) =>
       \A c \in ChunkIds :
         /\ c < i => parts[c] = NoFile
         /\ c >= i => parts[c] = File(Written(c))
  /\ (Succeeded /\ ~IsSmallFile(file_size)) =>
       \A c \in Workers : parts[c] = NoFile

\* Half way through a reassembly of two chunks: the first temporary is
\* appended and gone, the second is still there.
C21_Witness ==
  /\ pc = "reassemble"
  /\ chunks = 2
  /\ i = 1
  /\ parts[0] = NoFile
  /\ parts[1].exists /\ parts[1].data # <<>>
  /\ local.data # <<>>

\* The call failed in the reassembly: all threads were started and have
\* ended, no error was recorded, and download_file returned False.
ReassemblyFailed ==
  /\ Failed
  /\ ~IsSmallFile(file_size)
  /\ chunks >= 1
  /\ Len(threads) = chunks
  /\ errors = <<>>

\* C22: download_file returns True on the chunked path only when every
\* step of the reassembly was done (all temporaries appended and removed);
\* when the reassembly failed, at the opening of the destination or in
\* iteration i, the temporaries below i are gone and those from i on are
\* as their threads left them.
C22_ReassemblyFailure ==
  /\ (Succeeded /\ ~IsSmallFile(file_size) /\ chunks >= 1) =>
       /\ i = chunks
       /\ \A c \in ChunkIds : parts[c] = NoFile
       /\ local.exists
  /\ ReassemblyFailed =>
       \A c \in ChunkIds :
         /\ c < i => parts[c] = NoFile
         /\ c >= i => parts[c] = File(Written(c))

\* The reassembly of two chunks failed at the second: the first
\* temporary is gone, the second is left, the destination holds a part.
C22_Witness ==
  /\ ReassemblyFailed
  /\ chunks = 2
  /\ i = 1
  /\ parts[0] = NoFile
  /\ parts[1].exists
  /\ local.exists

\* The phases of a call: planning (0), threads in flight (1),
\* reassembling (2), returned (3).
PhaseRank(p) ==
  CASE p \in {"call", "get", "plan"} -> 0
    [] p \in {"spawn", "join", "check"} -> 1
    [] p \in {"open_output", "reassemble"} -> 2
    [] OTHER -> 3

\* C23: download_file only moves forward through its phases; it enters
\* the reassembly only from the check of the error list, with the list
\* empty and every thread ended; on the chunked path it returns True only
\* out of the reassembly; and once it has returned nothing changes any
\* more: no thread is started and no thread takes a step.
C23_ForwardOnly ==
  [][/\ PhaseRank(pc') >= PhaseRank(pc)
     /\ (PhaseRank(pc') = 2 /\ PhaseRank(pc) # 2) =>
          /\ pc = "check"
          /\ errors = <<>>
          /\ \A c \in Workers : w_pc[c] \in {"unstarted", "ended"}
     /\ (pc # "done" /\ pc' = "done" /\ ret' = "True" /\ ~IsSmallFile(file_size)) =>
          pc = "reassemble"
     /\ pc = "done" => UNCHANGED vars]_vars

\* What get returns for path when the file can be read.
Got(path) == GetResult(path, cache[CacheKey(path)], TRUE)

\* The folder sizes a get is to return for the argument given to set.
GivenSizes(arg) == IF arg.none THEN <<>> ELSE arg.items

\* C24: when the last set(path, files, folder_sizes) that returned was
\* at time t and no set or clear came after it, a get(path) that can
\* read the file returns, while now - t <= max_age, exactly those files
\* and folder sizes (none for None) and the age in whole seconds, and
\* returns None when now - t > max_age.
C24_RoundTripAndExpiry ==
  \A path \in Paths :
    last_set[path].set =>
      LET ls == last_set[path]
          r == Got(path)
      IN IF now - ls.timestamp <= MaxAge * TicksPerSecond
           THEN /\ r.hit
                /\ r.files = ls.files
                /\ r.folder_sizes = GivenSizes(ls.folder_sizes)
                /\ r.age * TicksPerSecond <= now - ls.timestamp
                /\ (r.age + 1) * TicksPerSecond > now - ls.timestamp
           ELSE ~r.hit

\* A get has returned the two entries and the folder sizes of a set made
\* exactly max_age before, and another has missed an entry that is
\* older.
C24_Witness ==
  /\ op.kind = "get"
  /\ op.hit
  /\ op.age = MaxAge
  /\ op.files = <<2, 1>>
  /\ op.folder_sizes = << <<1, 5>> >>
  /\ last_set[op.path].set
  /\ now - last_set[op.path].timestamp = MaxAge * TicksPerSecond
  /\ \E q \in Paths : last_set[q].set /\ ~Got(q).hit

\* C25: when a set(path, files, folder_sizes) has returned and no set or
\* clear came after it, the file of the path's key is the pickle of that
\* call's timestamp, files and folder sizes (an empty dict for None or
\* {}) and nothing else: no byte, entry or folder size of the entry it
\* replaced is left.
C25_SetReplaces ==
  \A path \in Paths :
    last_set[path].set =>
      LET ls == last_set[path]
          f == cache[CacheKey(path)]
          d == Unpickle(f.data)
      IN /\ f.exists
         /\ d.ok
         /\ d.timestamp = ls.timestamp
         /\ d.files = ls.files
         /\ d.folder_sizes = GivenSizes(ls.folder_sizes)
         /\ Len(f.data) = 4 + Len(ls.files) + 2 * Len(GivenSizes(ls.folder_sizes))

\* A set without folder sizes and with one entry has replaced an entry
\* that had a folder size.
C25_Witness ==
  /\ op.kind = "set"
  /\ ~op.raised
  /\ op.replaced = << <<1, 5>> >>
  /\ last_set[op.path].set
  /\ last_set[op.path].folder_sizes = NoneArg
  /\ last_set[op.path].files = <<1>>
  /\ Unpickle(cache[CacheKey(op.path)].data).folder_sizes = <<>>

\* The entry of path is stale: whole, and older than max_age.
Stale(path) ==
  LET f == cache[CacheKey(path)]
  IN /\ f.exists
     /\ Unpickle(f.data).ok
     /\ now - Unpickle(f.data).timestamp > MaxAge * TicksPerSecond

\* C27: a cache file changes or goes only in a call of set or of clear:
\* no get, get_stats or passing of time changes one, be the entry stale
\* or no pickle at all; and a stale entry is still a file that get_stats
\* counts.
C27_GetChangesNothing ==
  [][/\ cache' # cache => op'.kind \in {"set", "clear"}
     /\ \A path \in Paths :
          Stale(path) =>
            /\ ~Got(path).hit
            /\ Cardinality({k \in Keys : cache[k].exists}) >= 1
            /\ (op'.kind = "get_stats" /\ op' # op) => op'.count >= 1
            /\ op'.kind \in {"get", "get_stats"} =>
                 cache'[CacheKey(path)] = cache[CacheKey(path)]]_vars

\* A get has missed a stale entry, and the entry is still there.
C27_Witness ==
  /\ op.kind = "get"
  /\ ~op.hit
  /\ ~op.io_error
  /\ Stale(op.path)

\* C28: no get and no set ends with an exception; and get returns None
\* for a file that is no whole pickle or cannot be read.
C28_FailOpen ==
  /\ op.kind \in {"get", "set"} => ~op.raised
  /\ \A path \in Paths :
       LET f == cache[CacheKey(path)]
       IN (f.exists /\ ~Unpickle(f.data).ok) =>
            /\ ~Got(path).hit
            /\ ~GetResult(path, f, FALSE).hit

\* C30: a step in which the last call is a get or a set on one path
\* leaves the file of every other path, and what was last set for it, as
\* they were; two paths have two keys.
C30_OtherPathsUntouched ==
  [][\A q \in Paths :
       /\ \A p \in Paths \ {q} : CacheKey(p) # CacheKey(q)
       /\ (op'.kind \in {"get", "set"} /\ op'.path # q) =>
            /\ cache'[CacheKey(q)] = cache[CacheKey(q)]
            /\ last_set'[q] = last_set[q]]_vars

\* An entry was set for one path, and later a set and then a get were made
\* on the other path: the first entry is as it was set.
C30_Witness ==
  \E p, q \in Paths :
    /\ p # q
    /\ op.kind = "get"
    /\ op.hit
    /\ op.path = p
    /\ last_set[p].set
    /\ last_set[q].set
    /\ last_set[q].timestamp < last_set[p].timestamp
    /\ cache[CacheKey(q)].data = Pickle(CacheData(last_set[q].timestamp, last_set[q].files, last_set[q].folder_sizes))
    /\ cache[CacheKey(p)] # cache[CacheKey(q)]

\* C26: once two concurrent calls of set for one path have both
\* returned, the file unpickles, and to the dict of one of the two
\* calls.
C26_LastWriterWins ==
  (\A t \in Threads : s_pc[t] = "returned") =>
    LET d == Unpickle(cache[CacheKey(RacePath)].data)
    IN /\ d.ok
       /\ \E t \in Threads : d = Unpickle(s_data[t])

\* C29: a round of browse_files in which a remote listing was made and
\* succeeded leaves, for the current path, a cache file that holds the
\* listing just made with the time of the round, so that a get made then
\* is a hit returning that listing.
C29_ListingIsCached ==
  [][(op'.kind = "browse" /\ op'.listed /\ op' # op) =>
       LET f == cache'[CacheKey(op'.path)]
           d == Unpickle(f.data)
           r == GetResult(op'.path, f, TRUE)
       IN /\ f.exists
          /\ d.ok
          /\ d.files = op'.files
          /\ d.timestamp = now
          /\ r.hit
          /\ r.files = op'.files]_vars

\* C31: no thread of an earlier file is still running once download_files
\* has gone on to the next file; so threads of two files never run at
\* the same time.
C31_OneFileAtATime ==
  /\ stray = 0
  /\ ~(stray > 0 /\ Running # {})

\* C32: a file whose size at the stat is exactly the limit of line 231
\* never goes to the get of line 232: it is planned, one thread per
\* chunk is started, and True is returned only with all chunks threads
\* started; the get is reached only with a size strictly below the limit.
C32_LimitIsChunked ==
  /\ (pc # "call" /\ file_size = SmallFileLimit) =>
       /\ pc # "get"
       /\ (pc \in {"join", "check", "open_output", "reassemble"} /\ chunks >= 1) =>
            threads = [k \in 1..chunks |-> k - 1]
       /\ (Succeeded /\ chunks >= 1) => Len(threads) = chunks
  /\ pc = "get" => file_size < SmallFileLimit

\* A file of exactly the limit was fetched by two threads, one per chunk.
C32_Witness ==
  /\ Succeeded
  /\ file_size = SmallFileLimit
  /\ chunks = 2
  /\ threads = <<0, 1>>
  /\ \A c \in ChunkIds : session[c] = "closed"
  /\ local = File(RemoteContent(SmallFileLimit))

\* C33: the timestamp of an entry is the time its files came from the
\* server, so the files a get returns from the cache came from the server
\* max_age ago at most.
C33_TimestampIsFetchTime ==
  \A path \in Paths :
    last_set[path].set =>
      /\ last_set[path].timestamp = last_set[path].fetched
      /\ Got(path).hit =>
           now - last_set[path].fetched <= MaxAge * TicksPerSecond

\* C34: every total passed to progress_callback is greater than the one
\* passed before it, whichever threads made the two calls, and is at
\* most the size of the stat; the call is made by the one thread that
\* holds the lock, and the total it passes is the counter.
C34_ProgressIncreases ==
  [][cb_total' # cb_total =>
       /\ cb_total' > cb_total
       /\ cb_total' <= file_size
       /\ cb_total' = downloaded_bytes'
       /\ lock
       /\ Cardinality({c \in Workers : w_pc[c] = "locked"}) = 1]_vars

\* Two threads have both called progress_callback, the second with the
\* total of both, and both are still reading.
C34_Witness ==
  /\ \A c \in Workers : bytes_read[c] > 0 /\ w_pc[c] = "loop"
  /\ cb_total = bytes_read[0] + bytes_read[1]
  /\ cb_total < file_size

\* C35: under a fair scheduler every download_file call returns True or
\* False, every thread it started ends, and the lock a progress update
\* took is released, also when the callback raised.
C35_Terminates ==
  /\ <>[](pc = "done" /\ ret \in {"True", "False"})
  /\ <>[](Running = {})
  /\ lock ~> ~lock

\* A call has returned False after both threads reported progress and one
\* of them gave an error; both threads have ended and the lock is free.
C35_Witness ==
  /\ Failed
  /\ ChunkIds = {0, 1}
  /\ \A c \in ChunkIds : w_pc[c] = "ended" /\ bytes_read[c] > 0
  /\ cb_total = bytes_read[0] + bytes_read[1]
  /\ Len(errors) = 1
  /\ ~lock

\* C36: a get that ran while set was writing the file of its path and
\* returned an entry returned the whole entry of one call of set: the
\* timestamp, the files and the folder sizes of that one call; and no
\* get raises.
C36_WholeEntryOrMiss ==
  /\ op.kind = "get" => ~op.raised
  /\ (g_pc = "returned" /\ op.kind = "get" /\ op.hit) =>
       \E t \in Threads :
         /\ s_pc[t] # "idle"
         /\ Unpickle(g_buf) = Unpickle(s_data[t])

\* C37: once clear has returned no file is left: get_stats counts 0 and
\* get is a miss for every path, at any time until a set is made. The
\* count of get_stats is the number of paths that have a file, and
\* every entry stored by a set that returned has one, stale or not.
C37_ClearAndCount ==
  /\ op.kind = "clear" =>
       /\ Cardinality(CacheFiles) = 0
       /\ \A path \in Paths : ~Got(path).hit
  /\ op.kind = "get_stats" =>
       op.count = Cardinality({path \in Paths : cache[CacheKey(path)].exists})
  /\ \A path \in Paths : last_set[path].set => CacheKey(path) \in CacheFiles

\* clear went through the files of both paths and removed them.
C37_Witness ==
  /\ op.kind = "clear"
  /\ op.count = 2
  /\ now = MaxTime
  /\ CacheFiles = {}

\* The rows of downloads whose status is 'queued', by ascending id.
QueuedRows(rows) == Ascending({r.id : r \in {d \in rows : d.status = "queued"}})

\* C38: a row that is 'queued' after a step was 'queued' before it or is
\* the row queue_file has just inserted; and get_queued_files returns
\* the rows whose status is 'queued', all of them, by ascending id.
C38_QueuedOnce ==
  [][/\ \A r \in q_rows' :
          r.status = "queued" =>
            \/ r \in q_rows
            \/ q_op'.kind = "queue" /\ r.id = q_next /\ q_next' = q_next + 1
     /\ GetQueuedFiles' = QueuedRows(q_rows')]_vars

\* C39: clear_queue and remove_from_queue delete no row but rows whose
\* status is 'queued': clear_queue all of these, remove_from_queue the
\* one of the id given, reporting it found; when no row has that id, or
\* the row is not 'queued', it deletes nothing and reports not found.
C39_OnlyQueuedDeleted ==
  [][q_op'.kind \in {"clear_queue", "remove"} =>
       LET hit == {r \in q_rows : r.id = q_op'.id /\ r.status = "queued"}
       IN /\ \A r \in q_rows : r.status # "queued" => r \in q_rows'
          /\ q_rows' \subseteq q_rows
          /\ q_op'.kind = "clear_queue" => \A r \in q_rows' : r.status # "queued"
          /\ q_op'.kind = "remove" =>
               /\ q_rows' = q_rows \ hit
               /\ q_op'.found = (hit # {})
               /\ hit = {} => q_rows' = q_rows /\ ~q_op'.found]_vars

\* remove_from_queue was called for a row that is completed and reported
\* not found; the row is there, next to a failed one and a noted one.
C39_Witness ==
  /\ q_op.kind = "remove"
  /\ ~q_op.found
  /\ \E r \in q_rows : r.id = q_op.id /\ r.status = "completed"
  /\ \E r \in q_rows : r.status = "failed"
  /\ \E r \in q_rows : r.status = "noted"

====
